---- MODULE Spec2Model ----
(***************************************************************************)
(* Model of src/app.py: a Flask application factory that loads six         *)
(* collections from synthetic_data.json once and serves read-only GET      *)
(* endpoints over them, plus the derived /skillgap computation.            *)
(*                                                                         *)
(* A state is the startup document, the six collections extracted from     *)
(* it, and the last request with the response it produced.  One action     *)
(* per route handler; create_app is the startup step.                      *)
(***************************************************************************)
EXTENDS Integers, Sequences, FiniteSets, TLC

VARIABLES phase, doc, organizations, teams, roles, individuals, skills,
          benchmarks, req, resp

store == <<organizations, teams, roles, individuals, skills, benchmarks>>
vars == <<phase, doc, organizations, teams, roles, individuals, skills,
          benchmarks, req, resp>>

----------------------------------------------------------------------------
(* Bounds on the startup documents that are enumerated.                    *)

MaxOrgs == 2
MaxTeams == 2
MaxRoles == 2
MaxIndividuals == 2
MaxSkills == 2
MaxBench == 2

----------------------------------------------------------------------------
(* Python values.                                                          *)

\* Python's None as returned by request.args.get for an absent parameter.
None == "None"

\* None / {} where a dict is expected: `if not org` is true of both.
NoRecord == <<>>

\* dict.get(key, default)
DictGet(d, key, default) == IF key \in DOMAIN d THEN d[key] ELSE default

\* truth value of a str-or-None (`if org_id:`): None and '' are false.
Truthy(v) == v # None /\ v # ""

\* truth value of a dict-or-None (`if org`, `if not org`).
TruthyRecord(r) == DOMAIN r # {}

\* set(list)
Range(s) == {s[i] : i \in 1..Len(s)}

SeqsUpTo(S, n) == UNION {[1..k -> S] : k \in 0..n}

----------------------------------------------------------------------------
(* The records a startup document may hold (spec section 3: id and the     *)
(* foreign keys are present, industry and expected_skills are optional,    *)
(* uniqueness of ids and existence of referenced ids are not enforced).    *)

OrgIds == {"o1", "o2"}
TeamIds == {"t1", "t2"}
RoleIds == {"r1", "r2"}
IndIds == {"i1", "i2"}
SkillIds == {"s1", "s2", "s3"}
Industries == {"tech", "bio"}

OrgRecs == {[id |-> i] : i \in OrgIds}
             \cup {[id |-> i, industry |-> n] : i \in OrgIds, n \in Industries}

TeamRecs == [id : TeamIds, organization_id : OrgIds]

ExpectedLists == {<<"s1">>, <<"s2", "s1">>}

RoleRecs == [id : RoleIds, team_id : TeamIds]
              \cup [id : RoleIds, team_id : TeamIds, expected_skills : ExpectedLists]

IndRecs == [id : IndIds, team_id : TeamIds, role_id : RoleIds]

SkillRecs == [id : SkillIds]

BenchMaps == {<<>>} \cup {[n \in {"tech"} |-> b] : b \in SeqsUpTo(SkillIds, MaxBench)}

BaseData ==
  [organizations |-> <<[id |-> "o1", industry |-> "tech"], [id |-> "o2"]>>,
   teams         |-> <<[id |-> "t1", organization_id |-> "o1"],
                       [id |-> "t2", organization_id |-> "o2"]>>,
   roles         |-> <<[id |-> "r1", team_id |-> "t1", expected_skills |-> <<"s1">>],
                       [id |-> "r2", team_id |-> "t2", expected_skills |-> <<"s2">>]>>,
   individuals   |-> <<[id |-> "i1", team_id |-> "t1", role_id |-> "r1"],
                       [id |-> "i2", team_id |-> "t2", role_id |-> "r2"]>>,
   skills        |-> <<[id |-> "s2"], [id |-> "s1"]>>,
   benchmarks    |-> [tech |-> <<"s1", "s2", "s3">>]]

Keys == {"organizations", "teams", "roles", "individuals", "skills", "benchmarks"}

\* JSON objects: BaseData with one collection varied within its bound, and
\* BaseData with any set of top-level keys left out.
ObjectData ==
  {[BaseData EXCEPT !.organizations = s] : s \in SeqsUpTo(OrgRecs, MaxOrgs)}
    \cup {[BaseData EXCEPT !.teams = s] : s \in SeqsUpTo(TeamRecs, MaxTeams)}
    \cup {[BaseData EXCEPT !.roles = s] : s \in SeqsUpTo(RoleRecs, MaxRoles)}
    \cup {[BaseData EXCEPT !.individuals = s] : s \in SeqsUpTo(IndRecs, MaxIndividuals)}
    \cup {[BaseData EXCEPT !.skills = s] : s \in SeqsUpTo(SkillRecs, MaxSkills)}
    \cup {[BaseData EXCEPT !.benchmarks = b] : b \in BenchMaps}
    \cup {[k \in K |-> BaseData[k]] : K \in SUBSET Keys}

\* What open() / json.load() meet at startup: no file, text that is not
\* JSON, JSON whose top level is not an object, or a JSON object.
Documents ==
  {[kind |-> "missing"], [kind |-> "unparseable"], [kind |-> "nonobject"]}
    \cup {[kind |-> "object", data |-> d] : d \in ObjectData}

EmptyDefaults ==
  [organizations |-> <<>>, teams |-> <<>>, roles |-> <<>>,
   individuals |-> <<>>, skills |-> <<>>, benchmarks |-> <<>>]

----------------------------------------------------------------------------
(* Requests and responses.                                                 *)

NoReq == [endpoint |-> "none", path_id |-> None, args |-> <<>>]
NoResp == [status |-> 0, kind |-> "none", body |-> <<>>]

\* jsonify(x): status 200 unless given, JSON array / object by Python type.
JsonArray(status, body) == [status |-> status, kind |-> "array", body |-> body]
JsonObject(status, body) == [status |-> status, kind |-> "object", body |-> body]
\* a (text, status) tuple returned from a view
Text(status, body) == [status |-> status, kind |-> "text", body |-> body]

\* ids a URL path segment can carry (never empty), one of them unknown
PathIds(ids) == ids \cup {"x9"}
\* values a query parameter can carry, the empty string among them
ArgValues(ids) == ids \cup {""}

\* query strings with the given parameter names, each absent or present
OneArg(name, values) == {<<>>} \cup {[k \in {name} |-> v] : v \in values}

----------------------------------------------------------------------------
(* Helpers shared by the handlers.                                         *)

\* Variant of NextById that keeps scanning and returns the last match.
RECURSIVE LastById(_, _)
LastById(coll, id) ==
  IF coll = <<>> THEN NoRecord
  ELSE IF coll[Len(coll)].id = id THEN coll[Len(coll)]
  ELSE LastById(SubSeq(coll, 1, Len(coll) - 1), id)

\* next((o for o in coll if o['id'] == id), None)
RECURSIVE NextById(_, _)
NextById(coll, id) ==
  IF coll = <<>> THEN NoRecord
  ELSE IF Head(coll).id = id THEN Head(coll)
  ELSE NextById(Tail(coll), id)

\* Variant of FilterBy that falls back to the whole collection when
\* nothing matches (`filtered or coll`).
FilterByOrAll(coll, fk, v) ==
  LET Match(r) == r[fk] = v
  IN  IF SelectSeq(coll, Match) = <<>> THEN coll ELSE SelectSeq(coll, Match)

\* [r for r in coll if r[fk] == v]
RECURSIVE FilterBy(_, _, _)
FilterBy(coll, fk, v) ==
  IF coll = <<>> THEN <<>>
  ELSE IF Head(coll)[fk] = v THEN <<Head(coll)>> \o FilterBy(Tail(coll), fk, v)
  ELSE FilterBy(Tail(coll), fk, v)

\* Variant of RecordOr404 without the not-found branch (`jsonify(rec)`).
RecordAlways200(rec, message) == JsonObject(200, rec)

\* return jsonify(rec) if rec else (message, 404)
RecordOr404(rec, message) ==
  IF TruthyRecord(rec) THEN JsonObject(200, rec) ELSE Text(404, message)

\* the inner loop of get_skill_gap: for role in team_roles: set.update(...)
RECURSIVE UpdateFromRoles(_, _)
UpdateFromRoles(team_roles, expected_skills_set) ==
  IF team_roles = <<>> THEN expected_skills_set
  ELSE UpdateFromRoles(Tail(team_roles),
         expected_skills_set
           \cup Range(DictGet(Head(team_roles), "expected_skills", <<>>)))

\* the outer loop of get_skill_gap: for team in org_teams: ...
RECURSIVE UpdateFromTeams(_, _, _)
UpdateFromTeams(org_teams, roles_, expected_skills_set) ==
  IF org_teams = <<>> THEN expected_skills_set
  ELSE UpdateFromTeams(Tail(org_teams), roles_,
         UpdateFromRoles(FilterBy(roles_, "team_id", Head(org_teams).id),
                         expected_skills_set))

\* Variant of ExpectedSkillsSet that stops after the organization's first
\* team.
ExpectedSkillsFirstTeam(teams_, roles_, org_id) ==
  LET org_teams == FilterBy(teams_, "organization_id", org_id)
  IN  IF org_teams = <<>> THEN {}
      ELSE UpdateFromRoles(FilterBy(roles_, "team_id", Head(org_teams).id), {})

\* expected_skills_set as get_skill_gap accumulates it for org_id
ExpectedSkillsSet(teams_, roles_, org_id) ==
  UpdateFromTeams(FilterBy(teams_, "organization_id", org_id), roles_, {})

\* [s for s in skills if s['id'] in gap_skill_ids]
RECURSIVE SkillsIn(_, _)
SkillsIn(skills_, gap_skill_ids) ==
  IF skills_ = <<>> THEN <<>>
  ELSE IF Head(skills_).id \in gap_skill_ids
       THEN <<Head(skills_)>> \o SkillsIn(Tail(skills_), gap_skill_ids)
       ELSE SkillsIn(Tail(skills_), gap_skill_ids)

\* Variant of GapSkills that walks the benchmark list and looks each id up
\* in the skills collection.
RECURSIVE GapSkillsInBenchmarkOrder(_, _, _)
GapSkillsInBenchmarkOrder(skills_, benchmark_skills, expected_skills_set) ==
  IF benchmark_skills = <<>> THEN <<>>
  ELSE LET rest == GapSkillsInBenchmarkOrder(skills_, Tail(benchmark_skills),
                                             expected_skills_set)
           skill == NextById(skills_, Head(benchmark_skills))
       IN  IF Head(benchmark_skills) \notin expected_skills_set
              /\ TruthyRecord(skill)
           THEN <<skill>> \o rest
           ELSE rest

\* gap_skills from the benchmark list and the expected set
GapSkills(skills_, benchmark_skills, expected_skills_set) ==
  LET benchmark_skills_set == Range(benchmark_skills)
      gap_skill_ids == benchmark_skills_set \ expected_skills_set
  IN  SkillsIn(skills_, gap_skill_ids)

----------------------------------------------------------------------------
(* Startup.                                                                *)

Init ==
  /\ phase = "boot"
  /\ doc \in Documents
  /\ organizations = <<>>
  /\ teams = <<>>
  /\ roles = <<>>
  /\ individuals = <<>>
  /\ skills = <<>>
  /\ benchmarks = <<>>
  /\ req = NoReq
  /\ resp = NoResp

\* Variant of LoadData whose except clause catches the JSON decoding error
\* only, so that a missing file propagates.
LoadDataDecodeErrorOnly(d) ==
  IF d.kind = "unparseable" THEN [type |-> "dict", value |-> EmptyDefaults]
  ELSE IF d.kind = "object" THEN [type |-> "dict", value |-> d.data]
  ELSE IF d.kind = "nonobject" THEN [type |-> "list", value |-> <<>>]
  ELSE [type |-> "raise", value |-> <<>>]

\* the try/except around open() and json.load(): the parsed value, or the
\* all-empty dict when either raised
LoadData(d) ==
  IF d.kind \in {"missing", "unparseable"}
  THEN [type |-> "dict", value |-> EmptyDefaults]
  ELSE IF d.kind = "object" THEN [type |-> "dict", value |-> d.data]
  ELSE [type |-> "list", value |-> <<>>]

\* create_app: load, then data.get(name, default) for each collection.  A
\* JSON value that is not an object has no .get: the AttributeError is
\* raised outside the try block and the process does not start.
create_app ==
  /\ phase = "boot"
  /\ LET data == LoadData(doc)
     IN  IF data.type # "dict"
         THEN /\ phase' = "crashed"
              /\ UNCHANGED store
         ELSE /\ phase' = "serving"
              /\ organizations' = DictGet(data.value, "organizations", <<>>)
              /\ teams' = DictGet(data.value, "teams", <<>>)
              /\ roles' = DictGet(data.value, "roles", <<>>)
              /\ individuals' = DictGet(data.value, "individuals", <<>>)
              /\ skills' = DictGet(data.value, "skills", <<>>)
              /\ benchmarks' = DictGet(data.value, "benchmarks", <<>>)
  /\ UNCHANGED <<doc, req, resp>>

----------------------------------------------------------------------------
(* Route handlers.  Each serves one request: req' is the request, resp'    *)
(* the response computed from the collections.                             *)

Request(endpoint, path_id, args) ==
  [endpoint |-> endpoint, path_id |-> path_id, args |-> args]

get_organizations ==
  /\ phase = "serving"
  /\ req' = Request("/organizations", None, <<>>)
  /\ resp' = JsonArray(200, organizations)
  /\ UNCHANGED <<phase, doc, store>>

get_organization ==
  /\ phase = "serving"
  /\ \E org_id \in PathIds(OrgIds) :
       LET org == NextById(organizations, org_id)
       IN  /\ req' = Request("/organizations/<org_id>", org_id, <<>>)
           /\ resp' = RecordOr404(org, "Organization not found")
  /\ UNCHANGED <<phase, doc, store>>

get_teams ==
  /\ phase = "serving"
  /\ \E args \in OneArg("organization_id", ArgValues(OrgIds)) :
       LET org_id == DictGet(args, "organization_id", None)
       IN  /\ req' = Request("/teams", None, args)
           /\ resp' = IF Truthy(org_id)
                      THEN JsonArray(200, FilterBy(teams, "organization_id", org_id))
                      ELSE JsonArray(200, teams)
  /\ UNCHANGED <<phase, doc, store>>

get_team ==
  /\ phase = "serving"
  /\ \E team_id \in PathIds(TeamIds) :
       LET team == NextById(teams, team_id)
       IN  /\ req' = Request("/teams/<team_id>", team_id, <<>>)
           /\ resp' = RecordOr404(team, "Team not found")
  /\ UNCHANGED <<phase, doc, store>>

get_roles ==
  /\ phase = "serving"
  /\ \E args \in OneArg("team_id", ArgValues(TeamIds)) :
       LET team_id == DictGet(args, "team_id", None)
       IN  /\ req' = Request("/roles", None, args)
           /\ resp' = IF Truthy(team_id)
                      THEN JsonArray(200, FilterBy(roles, "team_id", team_id))
                      ELSE JsonArray(200, roles)
  /\ UNCHANGED <<phase, doc, store>>

get_role ==
  /\ phase = "serving"
  /\ \E role_id \in PathIds(RoleIds) :
       LET role == NextById(roles, role_id)
       IN  /\ req' = Request("/roles/<role_id>", role_id, <<>>)
           /\ resp' = RecordOr404(role, "Role not found")
  /\ UNCHANGED <<phase, doc, store>>

\* Variant of FilteredIndividuals that tests role_id before team_id.
FilteredIndividualsRoleFirst(individuals_, team_id, role_id) ==
  IF Truthy(role_id) THEN FilterBy(individuals_, "role_id", role_id)
  ELSE IF Truthy(team_id) THEN FilterBy(individuals_, "team_id", team_id)
  ELSE individuals_

\* the filter chain of get_individuals
FilteredIndividuals(individuals_, team_id, role_id) ==
  IF Truthy(team_id) THEN FilterBy(individuals_, "team_id", team_id)
  ELSE IF Truthy(role_id) THEN FilterBy(individuals_, "role_id", role_id)
  ELSE individuals_

IndividualArgs ==
  OneArg("team_id", ArgValues(TeamIds))
    \cup OneArg("role_id", ArgValues(RoleIds))
    \cup [team_id : ArgValues(TeamIds), role_id : ArgValues(RoleIds)]

get_individuals ==
  /\ phase = "serving"
  /\ \E args \in IndividualArgs :
       LET team_id == DictGet(args, "team_id", None)
           role_id == DictGet(args, "role_id", None)
       IN  /\ req' = Request("/individuals", None, args)
           /\ resp' = JsonArray(200,
                        FilteredIndividuals(individuals, team_id, role_id))
  /\ UNCHANGED <<phase, doc, store>>

get_individual ==
  /\ phase = "serving"
  /\ \E ind_id \in PathIds(IndIds) :
       LET ind == NextById(individuals, ind_id)
       IN  /\ req' = Request("/individuals/<ind_id>", ind_id, <<>>)
           /\ resp' = RecordOr404(ind, "Individual not found")
  /\ UNCHANGED <<phase, doc, store>>

get_skills ==
  /\ phase = "serving"
  /\ req' = Request("/skills", None, <<>>)
  /\ resp' = JsonArray(200, skills)
  /\ UNCHANGED <<phase, doc, store>>

\* Variant of BenchmarksResponse that answers 404 for an unknown industry.
BenchmarksResponseOr404(benchmarks_, industry) ==
  IF Truthy(industry)
  THEN IF industry \in DOMAIN benchmarks_
       THEN JsonArray(200, benchmarks_[industry])
       ELSE Text(404, "Industry not found")
  ELSE JsonObject(200, benchmarks_)

\* the body of get_benchmarks
BenchmarksResponse(benchmarks_, industry) ==
  IF Truthy(industry)
  THEN JsonArray(200, DictGet(benchmarks_, industry, <<>>))
  ELSE JsonObject(200, benchmarks_)

get_benchmarks ==
  /\ phase = "serving"
  /\ \E args \in OneArg("industry", ArgValues(Industries)) :
       LET industry == DictGet(args, "industry", None)
       IN  /\ req' = Request("/benchmarks", None, args)
           /\ resp' = BenchmarksResponse(benchmarks, industry)
  /\ UNCHANGED <<phase, doc, store>>

\* Variant of SkillGapResponse without the industry check
\* (`org.get('industry')`).
SkillGapResponseNoIndustryCheck(org_id) ==
  IF ~Truthy(org_id)
  THEN JsonObject(400, [error |-> "org_id parameter is required"])
  ELSE LET org == NextById(organizations, org_id)
       IN  IF ~TruthyRecord(org)
           THEN JsonObject(404, [error |-> "Organization not found"])
           ELSE LET org_industry == DictGet(org, "industry", None)
                    expected_skills_set == ExpectedSkillsSet(teams, roles, org_id)
                    benchmark_skills == DictGet(benchmarks, org_industry, <<>>)
                IN  JsonArray(200,
                      GapSkills(skills, benchmark_skills, expected_skills_set))

\* the body of get_skill_gap
SkillGapResponse(org_id) ==
  IF ~Truthy(org_id)
  THEN JsonObject(400, [error |-> "org_id parameter is required"])
  ELSE LET org == NextById(organizations, org_id)
       IN  IF ~TruthyRecord(org)
           THEN JsonObject(404, [error |-> "Organization not found"])
           ELSE IF "industry" \notin DOMAIN org
           THEN JsonObject(400,
                  [error |-> "Organization does not have an industry field"])
           ELSE LET org_industry == org.industry
                    expected_skills_set == ExpectedSkillsSet(teams, roles, org_id)
                    benchmark_skills == DictGet(benchmarks, org_industry, <<>>)
                IN  JsonArray(200,
                      GapSkills(skills, benchmark_skills, expected_skills_set))

\* Variant of get_skill_gap that reads expected_skills with
\* role.setdefault('expected_skills', []), which writes the default into
\* every visited role that lacks the field.
get_skill_gap_setdefault ==
  /\ phase = "serving"
  /\ \E args \in OneArg("org_id", ArgValues(OrgIds)) :
       LET org_id == DictGet(args, "org_id", None)
       IN  /\ req' = Request("/skillgap", None, args)
           /\ resp' = SkillGapResponse(org_id)
           /\ roles' = [i \in DOMAIN roles |->
                          IF /\ resp'.status = 200
                             /\ \E t \in Range(teams) :
                                  /\ t.organization_id = org_id
                                  /\ roles[i].team_id = t.id
                          THEN [k \in DOMAIN roles[i] \cup {"expected_skills"} |->
                                  IF k \in DOMAIN roles[i] THEN roles[i][k] ELSE <<>>]
                          ELSE roles[i]]
  /\ UNCHANGED <<phase, doc, organizations, teams, individuals, skills, benchmarks>>

get_skill_gap ==
  /\ phase = "serving"
  /\ \E args \in OneArg("org_id", ArgValues(OrgIds)) :
       LET org_id == DictGet(args, "org_id", None)
       IN  /\ req' = Request("/skillgap", None, args)
           /\ resp' = SkillGapResponse(org_id)
  /\ UNCHANGED <<phase, doc, store>>

----------------------------------------------------------------------------

Next ==
  \/ create_app
  \/ get_organizations
  \/ get_organization
  \/ get_teams
  \/ get_team
  \/ get_roles
  \/ get_role
  \/ get_individuals
  \/ get_individual
  \/ get_skills
  \/ get_benchmarks
  \/ get_skill_gap

Spec == Init /\ [][Next]_vars

----------------------------------------------------------------------------
(* Vocabulary of the properties, stated over the collections rather than   *)
(* through the handlers' loops.                                            *)

IdsOf(coll) == {coll[i].id : i \in DOMAIN coll}

\* position of the first record of coll that carries id
FirstIndex(coll, id) ==
  CHOOSE i \in DOMAIN coll :
    coll[i].id = id /\ \A j \in 1..(i - 1) : coll[j].id # id

Given(name) == name \in DOMAIN req.args

\* the records of coll whose field fk equals v, in load order
Matching(coll, fk, v) ==
  LET Match(r) == r[fk] = v
  IN  SelectSeq(coll, Match)

\* a is b with some positions left out
IsSubsequence(a, b) ==
  \E f \in [DOMAIN a -> DOMAIN b] :
    /\ \A i \in DOMAIN a : a[i] = b[f[i]]
    /\ \A i, j \in DOMAIN a : i < j => f[i] < f[j]

\* skill ids expected by some role of some team of the organization org_id
ExpectedUnder(org_id) ==
  LET team_ids == {t.id : t \in {u \in Range(teams) : u.organization_id = org_id}}
  IN  UNION {Range(r.expected_skills) :
               r \in {q \in Range(roles) :
                        q.team_id \in team_ids /\ "expected_skills" \in DOMAIN q}}

\* benchmark skill ids of an industry, none when the industry is unknown
BenchmarkIds(industry) ==
  IF industry \in DOMAIN benchmarks THEN Range(benchmarks[industry]) ELSE {}

\* the organization record a request for org_id is resolved to
ResolvedOrg(org_id) == organizations[FirstIndex(organizations, org_id)]

\* the skill records whose id is a benchmark id of the resolved
\* organization's industry that no role under org_id expects
GapRecords(org_id) ==
  LET gap == BenchmarkIds(ResolvedOrg(org_id).industry) \ ExpectedUnder(org_id)
      InGap(sk) == sk.id \in gap
  IN  SelectSeq(skills, InGap)

SkillGapServed ==
  /\ req.endpoint = "/skillgap"
  /\ Given("org_id")
  /\ req.args.org_id \in IdsOf(organizations)
  /\ "industry" \in DOMAIN ResolvedOrg(req.args.org_id)

----------------------------------------------------------------------------
----------------------------------------------------------------------------
(* C2 as stated: /skillgap answers 400 when org_id is missing, 404 when no *)
(* organization has the given org_id, 400 when the resolved organization   *)
(* has no industry, checked in that order, and none of these answers is a  *)
(* gap list.  Fails for ?org_id= (given, empty): no organization has the   *)
(* id, yet the answer is 400.                                              *)
C2_AsStated ==
  req.endpoint = "/skillgap" =>
    /\ ~Given("org_id") => resp.status = 400 /\ resp.kind # "array"
    /\ (Given("org_id") /\ req.args.org_id \notin IdsOf(organizations))
         => resp.status = 404 /\ resp.kind # "array"
    /\ (/\ Given("org_id")
        /\ req.args.org_id \in IdsOf(organizations)
        /\ "industry" \notin DOMAIN ResolvedOrg(req.args.org_id))
         => resp.status = 400 /\ resp.kind # "array"

(* C2 amended: /skillgap answers 400 when org_id is missing or empty,      *)
(* otherwise 404 when no organization has the given org_id, otherwise 400  *)
(* when the resolved organization has no industry; none of these answers   *)
(* is a gap list.                                                          *)
C2_SkillGapErrors ==
  req.endpoint = "/skillgap" =>
    /\ (~Given("org_id") \/ req.args.org_id = "")
         => resp.status = 400 /\ resp.kind # "array"
    /\ (/\ Given("org_id")
        /\ req.args.org_id # ""
        /\ req.args.org_id \notin IdsOf(organizations))
         => resp.status = 404 /\ resp.kind # "array"
    /\ (/\ Given("org_id")
        /\ req.args.org_id \in IdsOf(organizations)
        /\ "industry" \notin DOMAIN ResolvedOrg(req.args.org_id))
         => resp.status = 400 /\ resp.kind # "array"

\* the last of the three checks rejects a request the first two let through
C2_Witness ==
  /\ req.endpoint = "/skillgap"
  /\ Given("org_id")
  /\ req.args.org_id \in IdsOf(organizations)
  /\ "industry" \notin DOMAIN ResolvedOrg(req.args.org_id)
  /\ resp.status = 400
  /\ benchmarks # <<>>

----------------------------------------------------------------------------
ByIdEndpoints ==
  {"/organizations/<org_id>", "/teams/<team_id>", "/roles/<role_id>",
   "/individuals/<ind_id>"}

\* the collection a get-by-id or list endpoint reads
CollectionOf(endpoint) ==
  CASE endpoint \in {"/organizations", "/organizations/<org_id>"} -> organizations
    [] endpoint \in {"/teams", "/teams/<team_id>"} -> teams
    [] endpoint \in {"/roles", "/roles/<role_id>"} -> roles
    [] endpoint \in {"/individuals", "/individuals/<ind_id>"} -> individuals
    [] endpoint = "/skills" -> skills

(* C3: for organizations, teams, roles and individuals, get-by-id with an  *)
(* id present in the collection answers 200 with one record of the         *)
(* collection whose id is the supplied id; with an absent id it answers    *)
(* 404 with a text message, never a record and never a list.               *)
C3_GetById ==
  req.endpoint \in ByIdEndpoints =>
    IF req.path_id \in IdsOf(CollectionOf(req.endpoint))
    THEN /\ resp.status = 200
         /\ resp.kind = "object"
         /\ resp.body \in Range(CollectionOf(req.endpoint))
         /\ resp.body.id = req.path_id
    ELSE /\ resp.status = 404
         /\ resp.kind = "text"

\* a record picked out of a collection that also holds a record with
\* another id
C3_Witness ==
  /\ req.endpoint = "/individuals/<ind_id>"
  /\ resp.status = 200
  /\ resp.body.id = req.path_id
  /\ \E r \in Range(individuals) : r.id # req.path_id

----------------------------------------------------------------------------
\* the foreign key a list request filters on when exactly one filter
\* parameter of its endpoint is given, None otherwise
FilterKey ==
  CASE req.endpoint = "/teams" /\ Given("organization_id") -> "organization_id"
    [] req.endpoint = "/roles" /\ Given("team_id") -> "team_id"
    [] req.endpoint = "/individuals" /\ DOMAIN req.args = {"team_id"} -> "team_id"
    [] req.endpoint = "/individuals" /\ DOMAIN req.args = {"role_id"} -> "role_id"
    [] OTHER -> None

FilterAnswered ==
  /\ resp.status = 200
  /\ resp.kind = "array"
  /\ resp.body = Matching(CollectionOf(req.endpoint), FilterKey, req.args[FilterKey])

(* C4 as stated: on /teams, /roles and /individuals, whenever the filter   *)
(* parameter is given with any value v the answer is 200 with exactly the  *)
(* records whose foreign key equals v, in load order.  Fails for the empty *)
(* value, which returns the unfiltered list.                               *)
C4_AsStated == FilterKey # None => FilterAnswered

(* C4 amended: whenever the filter parameter is given with any non-empty   *)
(* value v the answer is 200 with exactly the records whose foreign key    *)
(* equals v, in load order; a value matching no record yields the empty    *)
(* list, never an error and never the unfiltered list.                     *)
C4_FilterByForeignKey ==
  (FilterKey # None /\ req.args[FilterKey] # "") => FilterAnswered

\* a filter value no record carries, on a collection that is not empty
C4_Witness ==
  /\ FilterKey # None
  /\ req.args[FilterKey] # ""
  /\ CollectionOf(req.endpoint) # <<>>
  /\ Matching(CollectionOf(req.endpoint), FilterKey, req.args[FilterKey]) = <<>>
  /\ resp.status = 200
  /\ resp.body = <<>>

----------------------------------------------------------------------------
BothGiven ==
  req.endpoint = "/individuals" /\ Given("team_id") /\ Given("role_id")

\* the answer to the request that supplies team_id only
TeamOnlyAnswer(team_id) ==
  JsonArray(200, FilteredIndividuals(individuals, team_id, None))

(* C5 as stated: when /individuals is given both team_id=T and role_id=R,  *)
(* the answer equals the answer to the request with team_id=T alone, for   *)
(* all T and R.  Fails for an empty T with a non-empty R: role_id filters. *)
C5_AsStated == BothGiven => resp = TeamOnlyAnswer(req.args.team_id)

(* C5 amended: when /individuals is given both a non-empty team_id=T and   *)
(* role_id=R, role_id is ignored: the answer equals the answer to the      *)
(* request with team_id=T alone, the records whose team_id is T.           *)
C5_TeamIdPrecedence ==
  (BothGiven /\ req.args.team_id # "") =>
    /\ resp = TeamOnlyAnswer(req.args.team_id)
    /\ resp.body = Matching(individuals, "team_id", req.args.team_id)

\* both filters given, and they select different records
C5_Witness ==
  /\ BothGiven
  /\ req.args.team_id # ""
  /\ req.args.role_id # ""
  /\ Matching(individuals, "team_id", req.args.team_id)
       # Matching(individuals, "role_id", req.args.role_id)
  /\ resp.body = Matching(individuals, "team_id", req.args.team_id)

----------------------------------------------------------------------------
BenchmarkListAnswered ==
  /\ resp.status = 200
  /\ resp.kind = "array"
  /\ resp.body = IF req.args.industry \in DOMAIN benchmarks
                 THEN benchmarks[req.args.industry]
                 ELSE <<>>

FullMappingAnswered ==
  /\ resp.status = 200
  /\ resp.kind = "object"
  /\ resp.body = benchmarks

(* C6 as stated: /benchmarks without industry returns the full mapping;    *)
(* with an industry it returns that industry's list, and the empty list    *)
(* with status 200 for every industry not in the mapping, never the full   *)
(* mapping.  Fails for ?industry= (empty), which returns the full mapping. *)
C6_AsStated ==
  req.endpoint = "/benchmarks" =>
    IF Given("industry") THEN BenchmarkListAnswered ELSE FullMappingAnswered

(* C6 amended: /benchmarks without industry returns the full mapping; with *)
(* a non-empty industry it returns that industry's list, and the empty     *)
(* list with status 200 for every non-empty industry not in the mapping,   *)
(* never a 404 and never the full mapping.                                 *)
C6_Benchmarks ==
  req.endpoint = "/benchmarks" =>
    /\ ~Given("industry") => FullMappingAnswered
    /\ (Given("industry") /\ req.args.industry # "") => BenchmarkListAnswered

\* an unknown industry asked of a mapping that is not empty
C6_Witness ==
  /\ req.endpoint = "/benchmarks"
  /\ Given("industry")
  /\ req.args.industry # ""
  /\ req.args.industry \notin DOMAIN benchmarks
  /\ DOMAIN benchmarks # {}
  /\ resp.status = 200
  /\ resp.kind = "array"
  /\ resp.body = <<>>

----------------------------------------------------------------------------
ListEndpoints == {"/organizations", "/teams", "/roles", "/individuals", "/skills"}

LoadFailed == doc.kind \in {"missing", "unparseable"}

(* C7: when the startup document is missing or is not parseable JSON,      *)
(* startup does not crash, all six collections are the empty defaults,     *)
(* and from then on every list endpoint answers 200 with an empty array    *)
(* while the process keeps serving.                                        *)
C7_LoadFailureDefaults ==
  LoadFailed =>
    /\ phase \in {"boot", "serving"}
    /\ phase = "boot" => ENABLED create_app
    /\ phase = "serving" =>
         /\ \A i \in 1..5 : store[i] = <<>>
         /\ DOMAIN benchmarks = {}
         /\ ENABLED get_organizations
         /\ req.endpoint \in ListEndpoints =>
              /\ resp.status = 200
              /\ resp.kind = "array"
              /\ resp.body = <<>>

\* a filtered list request served after a failed load
C7_Witness ==
  /\ LoadFailed
  /\ phase = "serving"
  /\ req.endpoint = "/individuals"
  /\ DOMAIN req.args = {"team_id", "role_id"}
  /\ req.args.team_id # ""
  /\ resp.status = 200
  /\ resp.body = <<>>

----------------------------------------------------------------------------
(* C8: once the application is serving, no request changes any of the six  *)
(* collections, whatever the request and whether it succeeds or fails, and *)
(* serving the same request again gives the same response.                 *)
C8_StoreIsReadOnly ==
  [][phase = "serving" =>
       /\ store' = store
       /\ (req' = req /\ req # NoReq) => resp' = resp]_vars

\* a skill-gap computed over roles that lack expected_skills, with the
\* collections still as the document gave them
C8_Witness ==
  /\ phase = "serving"
  /\ doc.kind = "object"
  /\ req.endpoint = "/skillgap"
  /\ resp.status = 200
  /\ \E r \in Range(roles) :
       /\ "expected_skills" \notin DOMAIN r
       /\ \E t \in Range(teams) :
            t.id = r.team_id /\ t.organization_id = req.args.org_id
  /\ roles = DictGet(doc.data, "roles", <<>>)
  /\ skills = DictGet(doc.data, "skills", <<>>)

----------------------------------------------------------------------------
(* C9: when a collection holds several records with the same id,           *)
(* get-by-id answers with the first of them in load order, and /skillgap   *)
(* resolves the organization to the first of them: its industry field      *)
(* decides between 400 and the gap, and its industry selects the           *)
(* benchmark.                                                              *)
C9_FirstMatch ==
  /\ (/\ req.endpoint \in ByIdEndpoints
      /\ req.path_id \in IdsOf(CollectionOf(req.endpoint)))
       => /\ resp.status = 200
          /\ resp.body = CollectionOf(req.endpoint)
                           [FirstIndex(CollectionOf(req.endpoint), req.path_id)]
  /\ (/\ req.endpoint = "/skillgap"
      /\ Given("org_id")
      /\ req.args.org_id \in IdsOf(organizations))
       => /\ resp.status = 400
               <=> "industry" \notin DOMAIN ResolvedOrg(req.args.org_id)
          /\ resp.status = 200 => resp.body = GapRecords(req.args.org_id)

\* two different roles under the requested id, the first one returned
C9_Witness ==
  /\ req.endpoint = "/roles/<role_id>"
  /\ resp.status = 200
  /\ \E i, j \in DOMAIN roles :
       /\ i < j
       /\ roles[i].id = req.path_id
       /\ roles[j].id = req.path_id
       /\ roles[i] # roles[j]
       /\ resp.body = roles[i]

----------------------------------------------------------------------------
(* C10: the list a successful /skillgap returns is a subsequence of the    *)
(* skills collection: its records come in the collection's load order and  *)
(* each record of the collection is used at most once, also when the       *)
(* benchmark lists an id several times or roles expect overlapping skills. *)
C10_GapIsSubsequenceOfSkills ==
  (req.endpoint = "/skillgap" /\ resp.status = 200) =>
    /\ resp.kind = "array"
    /\ IsSubsequence(resp.body, skills)

\* a gap record whose id the benchmark lists twice
C10_Witness ==
  /\ SkillGapServed
  /\ resp.status = 200
  /\ resp.body # <<>>
  /\ LET b == DictGet(benchmarks, ResolvedOrg(req.args.org_id).industry, <<>>)
     IN  \E i, j \in DOMAIN b :
           i < j /\ b[i] = b[j] /\ b[i] \in IdsOf(resp.body)

====
